---- MODULE Spec2Model ----
(***************************************************************************)
(* Model of evaluation/burst_denoise/compute_score.py: the command-line    *)
(* entry point (__main__) and compute_score, the per-network / per-sample  *)
(* evaluation loop with its saved-results cache, the 2**14 fixed-point     *)
(* quantisation of predictions, the score accumulators and the report.     *)
(*                                                                         *)
(* Strings that the code inspects character by character (the noise_level  *)
(* argument, file names) are sequences of one-character strings.           *)
(* Floating-point values are exact dyadic rationals: an integer numerator  *)
(* over the fixed denominator Den, or one of the specials NaN, +inf, -inf. *)
(* Every float operation the code performs on them (clamp to [0,1], times  *)
(* 2**14, divide by 2**14, uint16 -> float32) is exact in float32, so the  *)
(* exact arithmetic below is the arithmetic of the program.                *)
(***************************************************************************)
EXTENDS Integers, Sequences, FiniteSets, TLC

(* ------------------------------ bounds -------------------------------- *)
\* longest network_list returned by the experiment's main()
MaxNets == 2
\* largest len(dataset)
MaxL == 2
\* sub-steps of a network output between two neighbouring fixed-point levels
Sub == 2
\* longest noise_level argument string
MaxArgLen == 3

(* -------------------------- program constants ------------------------- *)
\* 2 ** 14, the fixed-point scale
Q == 16384
\* number of values of a 16-bit integer (torch .short(), 16-bit png samples)
TwoPow16 == 65536

Den == Q * Sub

Metrics == <<"psnr", "ssim", "lpips">>

MetricSet == {Metrics[i] : i \in 1..Len(Metrics)}

AllArg == <<"a", "l", "l">>

\* line 153 with two levels exchanged
NoiseLevelsSwapped == <<1, 2, 8, 4>>

\* for level in [1, 2, 4, 8]
NoiseLevels == <<1, 2, 4, 8>>

\* assert int(args.noise_level) in [1, 2, 4, 8]
ValidLevels == {1, 2, 4, 8}

Digits == <<"0", "1", "2", "3", "4", "5", "6", "7", "8", "9">>

(* ------------------- int(args.noise_level), line 156 ------------------ *)
IsDigit(c) == \E i \in 1..Len(Digits) : Digits[i] = c

DigitVal(c) == (CHOOSE i \in 1..Len(Digits) : Digits[i] = c) - 1

RECURSIVE LStrip(_)
LStrip(s) == IF s # <<>> /\ Head(s) = " " THEN LStrip(Tail(s)) ELSE s

RECURSIVE RStrip(_)
RStrip(s) ==
    IF s # <<>> /\ s[Len(s)] = " " THEN RStrip(SubSeq(s, 1, Len(s) - 1)) ELSE s

RECURSIVE DecimalValue(_)
DecimalValue(s) ==
    IF s = <<>> THEN 0
    ELSE 10 * DecimalValue(SubSeq(s, 1, Len(s) - 1)) + DigitVal(s[Len(s)])

\* int(str) without the stripping of surrounding whitespace
ParseIntNoStrip(s) ==
    LET signed == s # <<>> /\ Head(s) \in {"+", "-"}
        body == IF signed THEN Tail(s) ELSE s
    IN  IF body = <<>> \/ \E i \in 1..Len(body) : ~IsDigit(body[i])
        THEN [err |-> TRUE, val |-> 0]
        ELSE [err |-> FALSE,
              val |-> IF signed /\ Head(s) = "-"
                      THEN 0 - DecimalValue(body) ELSE DecimalValue(body)]

\* Python's int(str): surrounding whitespace is stripped, one optional sign,
\* then one or more decimal digits (leading zeros allowed); anything else
\* raises ValueError.
ParseInt(s) ==
    LET t == RStrip(LStrip(s))
        signed == t # <<>> /\ Head(t) \in {"+", "-"}
        body == IF signed THEN Tail(t) ELSE t
    IN  IF body = <<>> \/ \E i \in 1..Len(body) : ~IsDigit(body[i])
        THEN [err |-> TRUE, val |-> 0]
        ELSE [err |-> FALSE,
              val |-> IF signed /\ Head(t) = "-"
                      THEN 0 - DecimalValue(body) ELSE DecimalValue(body)]

(* ------------------- the saved-results directory ---------------------- *)
\* meta_info['burst_name'] of sample idx (0-based)
BurstName(i) == <<"b", Digits[i + 1]>>

\* '{}/{}.png'.format(out_dir, burst_name), the file part
PngFile(i) == BurstName(i) \o <<".", "p", "n", "g">>

\* res[-3:] of a Python string: the last three characters, or the whole
\* string when it is shorter
Last3(s) == IF Len(s) <= 3 THEN s ELSE SubSeq(s, Len(s) - 2, Len(s))

\* result_list = [res for res in os.listdir(out_dir) if res[-3:] == 'png']
ResultList(entries) == {e \in entries : Last3(e) = <<"p", "n", "g">>}

\* lines 82-92 with the count compared by >= instead of ==
UsingSavedResultsAtLeast(ls, d, len) ==
    /\ ls
    /\ d.exists
    /\ Cardinality(ResultList(d.entries)) >= len

\* lines 82-92
UsingSavedResults(ls, d, len) ==
    /\ ls
    /\ d.exists
    /\ Cardinality(ResultList(d.entries)) = len

(* ------------------------- the two prediction paths ------------------- *)
\* a float32 value: a finite numerator over Den, or NaN, +inf, -inf
Fin(n) == [kind |-> "fin", num |-> n]

NaN == [kind |-> "nan", num |-> 0]

PosInf == [kind |-> "+inf", num |-> 0]

NegInf == [kind |-> "-inf", num |-> 0]

\* net_pred.clamp(0.0, 1.0); clamp propagates NaN
Clamp(v) ==
    IF v.kind = "nan" THEN NaN
    ELSE IF v.kind = "-inf" THEN Fin(0)
    ELSE IF v.kind = "+inf" THEN Fin(Den)
    ELSE IF v.num < 0 THEN Fin(0)
    ELSE IF v.num > Den THEN Fin(Den)
    ELSE v

\* (...) * 2 ** 14
Scale(v) == IF v.kind = "fin" THEN Fin(v.num * Q) ELSE v

\* integer part of num / Den, rounded toward zero
TruncToInt(num) == IF num >= 0 THEN num \div Den ELSE 0 - ((0 - num) \div Den)

\* the low 16 bits of k, read as a signed integer
Wrap16(k) == ((k + TwoPow16 \div 2) % TwoPow16) - TwoPow16 \div 2

\* (...).short(): float -> int16 on the CUDA device the script pins (lines
\* 57, 96): truncation toward zero, 16 bits kept; NaN converts to 0 there.
\* Infinities never reach it: the clamp has replaced them.
ToShort(v) == IF v.kind = "fin" THEN Wrap16(TruncToInt(v.num)) ELSE 0

\* the division of line 125 by 2 ** 13 instead of 2 ** 14
DivQHalfScale(k) == Fin(2 * k * (Den \div Q))

\* net_pred_int.float() / (2 ** 14)
DivQ(k) == Fin(k * (Den \div Q))

\* lines 124-125 without the clamp
QuantizeNoClamp(v) == DivQ(ToShort(Scale(v)))

\* lines 124-125
Quantize(v) == DivQ(ToShort(Scale(Clamp(v))))

\* line 114 / 116: torch.from_numpy(net_pred.astype(np.float32)) / 2 ** 14
LoadedPred(pixel) == Fin(pixel * (Den \div Q))

(* ------------------------ external collaborators --------------------- *)
\* The directory states a results directory may be in: missing, or present
\* with any set of entries out of the png files of samples 0..MaxL-1 and two
\* other names: "png", which ends in 'png' and is no sample's file, and "ng",
\* which does not.
FileUniverse ==
    {PngFile(i) : i \in 0..(MaxL - 1)} \cup {<<"p", "n", "g">>, <<"n", "g">>}

MissingDir == [exists |-> FALSE, entries |-> {}]

DirStates ==
    {MissingDir} \cup {[exists |-> TRUE, entries |-> e] : e \in SUBSET FileUniverse}

\* a directory holding exactly the png files of a dataset of length len
FullDir(len) == [exists |-> TRUE, entries |-> {PngFile(i) : i \in 0..(len - 1)}]

\* cv2.imread('{}/{}.png'.format(out_dir, burst_name), IMREAD_UNCHANGED):
\* None when the file is not there, else its 16-bit sample.  The images are
\* the environment's: the sample is the base value e.img shifted by an amount
\* that differs per directory (unique name, level) and per burst.
Imread(e, d, unique, level, i) ==
    IF d.exists /\ PngFile(i) \in d.entries
    THEN [none |-> FALSE,
          pixel |-> (e.img + 1000 * (unique - 1) + 10 * i + (level - 1)) % TwoPow16]
    ELSE [none |-> TRUE, pixel |-> 0]

\* net(burst, noise_estimate=noise_estimate) of the network of descriptor k:
\* the base value e.out shifted by an amount that differs per network, level
\* and burst; a special value is every network's output.
NetForward(e, k, level, i) ==
    IF e.out.kind = "fin"
    THEN Fin(e.out.num + 37 * (k - 1) + 5 * i + (level - 1))
    ELSE e.out

\* m_fn(net_pred, gt.unsqueeze(0), meta_info=[meta_info, ]).cpu().item(): the
\* three metrics are functions of the prediction and the sample's ground truth
MetricValue(m, pred, i) ==
    IF m = "psnr" THEN pred.num + i
    ELSE IF m = "ssim" THEN 2 * pred.num + i + 1
    ELSE 3 * pred.num + i + 2

(* ------------------------------- state -------------------------------- *)
VARIABLES
    setting, mode, noise_level, load_saved,   \* args (line 150)
    network_list,                             \* expr_func() (line 45)
    L,                                        \* len(dataset)
    env,                                      \* file system and network outputs
    pc, error,                                \* position, uncaught exception
    levels,                                   \* levels still to be evaluated
    calls, returned,                          \* compute_score calls made / returned
    heap,                                     \* the list objects of compute_score
    scores, scores_all,                       \* metric -> list, name -> scores
    n, idx,                                   \* loop positions (1-based, 0-based)
    using_saved_results, dir, net, net_pred,
    log,                                      \* load_net / net / imread calls of this call
    stored,                                   \* what line 131 stored, per network
    report, printed                           \* last table formatted, levels printed

args == <<setting, mode, noise_level, load_saved>>

world == <<network_list, L, env>>

main_vars == <<pc, error, levels, calls, returned>>

locals == <<heap, scores, scores_all, n, idx, using_saved_results, dir, net,
            net_pred, log, stored>>

out_vars == <<report, printed>>

vars == <<args, world, main_vars, locals, out_vars>>

EmptyTable == [k \in {} |-> 0]

DisplayNames == {"netA", "netB"}

\* The network lists an experiment may return: up to MaxNets descriptors, the
\* k-th with unique name k and any display name (up to renaming: the first
\* descriptor's is "netA").
NetworkLists ==
    UNION {{[i \in 1..k |-> [unique |-> i, display |-> f[i]]] :
                f \in {g \in [1..k -> DisplayNames] : k = 0 \/ g[1] = "netA"}} :
           k \in 0..MaxNets}

\* the (setting, mode, --load_saved) command lines explored
Invocations == {<<"expA", "grayscale", TRUE>>, <<"expB", "color", FALSE>>}

\* no compute_score frame: its locals do not exist
NoFrame(h, sc, sa, k, i, u, d, nt, p, lg) ==
    /\ h = <<>>
    /\ sc = EmptyTable
    /\ sa = EmptyTable
    /\ k = 0
    /\ i = 0
    /\ u = FALSE
    /\ d = MissingDir
    /\ nt = 0
    /\ p = Fin(0)
    /\ lg = <<>>

\* the state of the process when __main__ starts
Start ==
    /\ pc = "main"
    /\ error = "none"
    /\ levels = <<>>
    /\ calls = <<>>
    /\ returned = 0
    /\ NoFrame(heap, scores, scores_all, n, idx, using_saved_results, dir, net,
               net_pred, log)
    /\ stored = <<>>
    /\ report = EmptyTable
    /\ printed = <<>>

SmallArgs == {<<"2">>, AllArg, <<"3">>, <<"a">>}

\* Runs over every network list, dataset length and directory state.  With
\* --load_saved absent the code never looks at the directory, and two
\* directory states stand for all of them.
Init ==
    /\ \E inv \in Invocations :
        /\ setting = inv[1]
        /\ mode = inv[2]
        /\ load_saved = inv[3]
    /\ noise_level \in SmallArgs
    /\ network_list \in NetworkLists
    /\ L \in 0..MaxL
    /\ env = [dirs |-> IF load_saved THEN DirStates ELSE {MissingDir, FullDir(L)},
              img |-> 12000, out |-> Fin(4000 * Sub + 1)]
    /\ Start

\* the runs of Init with at most one network and one sample
InitCore == Init /\ Len(network_list) <= 1 /\ L <= 1

\* one network, one sample, noise level 1
OneSample ==
    /\ setting = "expA"
    /\ mode = "color"
    /\ noise_level = <<"1">>
    /\ network_list = <<[unique |-> 1, display |-> "netA"]>>
    /\ L = 1
    /\ Start

\* every 16-bit sample a saved image can hold
Pixels == 0..(TwoPow16 - 1)

\* the values a network can output: every multiple of 1/Den from below 0 to
\* above 1, and the three specials
NetOutputs ==
    {Fin(x) : x \in (0 - 2 * Sub)..(Den + 2 * Sub)} \cup {NaN, PosInf, NegInf}

InitSavedPixel ==
    /\ OneSample
    /\ load_saved = TRUE
    /\ \E px \in Pixels : env = [dirs |-> {FullDir(1)}, img |-> px, out |-> Fin(0)]

InitNetOutput ==
    /\ OneSample
    /\ load_saved = FALSE
    /\ \E v \in NetOutputs : env = [dirs |-> {MissingDir}, img |-> 0, out |-> v]

ArgAlphabet == {"0", "1", "2", "3", "4", "8", " ", "-", "a", "l"}

RECURSIVE StringsUpTo(_)
StringsUpTo(k) ==
    IF k = 0 THEN {<<>>}
    ELSE LET shorter == StringsUpTo(k - 1)
         IN  shorter \cup {Append(q, c) : q \in {r \in shorter : Len(r) = k - 1},
                                          c \in ArgAlphabet}

InitAnyArg ==
    /\ setting = "expA"
    /\ mode = "color"
    /\ load_saved = FALSE
    /\ noise_level \in StringsUpTo(MaxArgLen)
    /\ network_list = <<[unique |-> 1, display |-> "netA"]>>
    /\ L = 1
    /\ env = [dirs |-> {MissingDir}, img |-> 0, out |-> Fin(1)]
    /\ Start

(* ------------------------------ __main__ ------------------------------ *)
Crash(e) ==
    /\ pc' = "crashed"
    /\ error' = e
    /\ UNCHANGED <<args, world, levels, calls, returned, locals, out_vars>>

\* line 152-153
MainAll ==
    /\ pc = "main"
    /\ noise_level = AllArg
    /\ levels' = NoiseLevels
    /\ pc' = "loop"
    /\ UNCHANGED <<args, world, error, calls, returned, locals, out_vars>>

\* line 156, int() raises.  (Any string can be the value of the positional
\* argument: one that starts with '-' is passed after a '--'.)
MainValueError ==
    /\ pc = "main"
    /\ noise_level # AllArg
    /\ ParseInt(noise_level).err
    /\ Crash("ValueError")

\* line 156, the assertion fails
MainAssertionError ==
    /\ pc = "main"
    /\ noise_level # AllArg
    /\ ~ParseInt(noise_level).err
    /\ ParseInt(noise_level).val \notin ValidLevels
    /\ Crash("AssertionError")

\* line 156-157
MainSingle ==
    /\ pc = "main"
    /\ noise_level # AllArg
    /\ ~ParseInt(noise_level).err
    /\ ParseInt(noise_level).val \in ValidLevels
    /\ levels' = <<ParseInt(noise_level).val>>
    /\ pc' = "loop"
    /\ UNCHANGED <<args, world, error, calls, returned, locals, out_vars>>

\* line 78 clearing nothing: after the first dict, the same lists are kept
FreshScoresReuse(h, keys) ==
    IF h = <<>>
    THEN [heap |-> [i \in 1..Len(keys) |-> <<>>],
          scores |-> [m \in {keys[i] : i \in 1..Len(keys)} |->
                        CHOOSE i \in 1..Len(keys) : keys[i] = m]]
    ELSE [heap |-> h,
          scores |-> [m \in {keys[i] : i \in 1..Len(keys)} |->
                        CHOOSE i \in 1..Len(keys) : keys[i] = m]]

\* a fresh dict of fresh empty lists, one per key, allocated on heap h
\* (lines 61-73 for the first one, line 78 for each network)
FreshScores(h, keys) ==
    [heap |-> h \o [i \in 1..Len(keys) |-> <<>>],
     scores |-> [m \in {keys[i] : i \in 1..Len(keys)} |->
                    Len(h) + (CHOOSE i \in 1..Len(keys) : keys[i] = m)]]

\* lines 154 / 157 and 38-75: the call, up to the network loop
CallComputeScore ==
    /\ pc = "loop"
    /\ levels # <<>>
    /\ calls' = Append(calls, [setting |-> setting, mode |-> mode,
                               noise_level |-> Head(levels),
                               load_saved |-> load_saved])
    /\ levels' = Tail(levels)
    /\ heap' = FreshScores(<<>>, Metrics).heap
    /\ scores' = FreshScores(<<>>, Metrics).scores
    /\ scores_all' = EmptyTable
    /\ n' = 1
    /\ idx' = 0
    /\ using_saved_results' = FALSE
    /\ dir' = MissingDir
    /\ net' = 0
    /\ net_pred' = Fin(0)
    /\ log' = <<>>
    /\ stored' = <<>>
    /\ pc' = "net"
    /\ UNCHANGED <<args, world, error, returned, out_vars>>

\* the script ends after its last call
Exit ==
    /\ pc = "loop"
    /\ levels = <<>>
    /\ pc' = "done"
    /\ UNCHANGED <<args, world, error, levels, calls, returned, locals, out_vars>>

CurLevel == calls[Len(calls)].noise_level

(* ---------------------------- compute_score -------------------------- *)
Event(op, k, i) == [op |-> op, n |-> k, idx |-> i]

\* line 94 without its condition: the network is always loaded
NeedsNetAlways(saved) == TRUE

\* line 94: if not using_saved_results
NeedsNet(saved) == ~saved

\* lines 77-97: the head of one iteration of the network loop
NetBegin ==
    /\ pc = "net"
    /\ n <= Len(network_list)
    /\ \E d \in env.dirs :
        LET fresh == FreshScores(heap, Metrics)
            saved == UsingSavedResults(load_saved, d, L)
        IN  /\ heap' = fresh.heap
            /\ scores' = fresh.scores
            /\ dir' = d
            /\ using_saved_results' = saved
            /\ net' = IF NeedsNet(saved) THEN n ELSE net
            /\ log' = IF NeedsNet(saved)
                      THEN Append(log, Event("load_net", n, 0)) ELSE log
    /\ idx' = 0
    /\ pc' = "sample"
    /\ UNCHANGED <<args, world, error, levels, calls, returned, scores_all, n,
                   net_pred, stored, out_vars>>

\* lines 127-129: every metric's value of pred is appended to its list
AppendScores(h, sc, pred, i) ==
    [j \in 1..Len(h) |->
        IF \E m \in DOMAIN sc : sc[m] = j
        THEN Append(h[j], MetricValue(CHOOSE m \in DOMAIN sc : sc[m] = j, pred, i))
        ELSE h[j]]

\* lines 100-117, 127-129: one sample, prediction read from the saved image
SampleSaved ==
    /\ pc = "sample"
    /\ idx < L
    /\ using_saved_results
    /\ LET img == Imread(env, dir, network_list[n].unique, CurLevel, idx)
       IN  /\ ~img.none
           /\ net_pred' = LoadedPred(img.pixel)
           /\ heap' = AppendScores(heap, scores, LoadedPred(img.pixel), idx)
    /\ log' = Append(log, Event("imread", n, idx))
    /\ idx' = idx + 1
    /\ UNCHANGED <<args, world, main_vars, scores, scores_all, n,
                   using_saved_results, dir, net, stored, out_vars>>

\* a missing image treated as a cache miss: the network is loaded and the
\* sample inferred
SampleFallsBack ==
    /\ pc = "sample"
    /\ idx < L
    /\ using_saved_results
    /\ Imread(env, dir, network_list[n].unique, CurLevel, idx).none
    /\ net' = n
    /\ net_pred' = Quantize(NetForward(env, n, CurLevel, idx))
    /\ heap' = AppendScores(heap, scores, Quantize(NetForward(env, n, CurLevel, idx)), idx)
    /\ log' = log \o <<Event("load_net", n, 0), Event("net", n, idx)>>
    /\ idx' = idx + 1
    /\ UNCHANGED <<args, world, main_vars, scores, scores_all, n,
                   using_saved_results, dir, stored, out_vars>>

\* lines 111-114: imread returned None, None.astype raises AttributeError
SampleMissingFile ==
    /\ pc = "sample"
    /\ idx < L
    /\ using_saved_results
    /\ Imread(env, dir, network_list[n].unique, CurLevel, idx).none
    /\ Crash("AttributeError")

\* lines 100-108, 120-129: one sample, prediction inferred and quantised
SampleInferred ==
    /\ pc = "sample"
    /\ idx < L
    /\ ~using_saved_results
    /\ LET pred == Quantize(NetForward(env, net, CurLevel, idx))
       IN  /\ net_pred' = pred
           /\ heap' = AppendScores(heap, scores, pred, idx)
    /\ log' = Append(log, Event("net", net, idx))
    /\ idx' = idx + 1
    /\ UNCHANGED <<args, world, main_vars, scores, scores_all, n,
                   using_saved_results, dir, net, stored, out_vars>>

\* scores_all.setdefault(name, sc): an existing entry is kept
SetItemKeepFirst(table, name, sc) ==
    [k \in DOMAIN table \cup {name} |-> IF k \in DOMAIN table THEN table[k] ELSE sc]

\* scores_all[name] = sc
SetItem(table, name, sc) ==
    [k \in DOMAIN table \cup {name} |-> IF k = name THEN sc ELSE table[k]]

\* line 131, after the sample loop
StoreScores ==
    /\ pc = "sample"
    /\ idx = L
    /\ scores_all' = SetItem(scores_all, network_list[n].display, scores)
    /\ stored' = Append(stored, [n |-> n, saved |-> using_saved_results,
                                 ids |-> scores,
                                 vals |-> [m \in MetricSet |-> heap[scores[m]]]])
    /\ n' = n + 1
    /\ pc' = "net"
    /\ UNCHANGED <<args, world, error, levels, calls, returned, heap, scores, idx,
                   using_saved_results, dir, net, net_pred, log, out_vars>>

RECURSIVE Sum(_)
Sum(s) == IF s = <<>> THEN 0 ELSE Head(s) + Sum(Tail(s))

\* line 133 dividing by len(s) + 1
MeanOffByOne(s) == [num |-> Sum(s), den |-> Len(s) + 1]

\* sum(s) / len(s), as an exact fraction
Mean(s) == [num |-> Sum(s), den |-> Len(s)]

\* line 133
ScoresAllMean(table, h) ==
    [name \in DOMAIN table |-> [m \in DOMAIN table[name] |-> Mean(h[table[name][m]])]]

\* line 133 divides by len(s)
SomeListEmpty ==
    \E name \in DOMAIN scores_all : \E m \in DOMAIN scores_all[name] :
        Len(heap[scores_all[name][m]]) = 0

\* lines 133-137, and the return
Report ==
    /\ pc = "net"
    /\ n > Len(network_list)
    /\ ~SomeListEmpty
    /\ report' = ScoresAllMean(scores_all, heap)
    /\ printed' = Append(printed, CurLevel)
    /\ returned' = returned + 1
    /\ pc' = "loop"
    /\ NoFrame(heap', scores', scores_all', n', idx', using_saved_results', dir',
               net', net_pred', log')
    /\ UNCHANGED <<args, world, error, levels, calls, stored>>

\* line 133: ZeroDivisionError on an empty score list
ReportZeroDivision ==
    /\ pc = "net"
    /\ n > Len(network_list)
    /\ SomeListEmpty
    /\ Crash("ZeroDivisionError")

Next ==
    \/ MainAll
    \/ MainValueError
    \/ MainAssertionError
    \/ MainSingle
    \/ CallComputeScore
    \/ Exit
    \/ NetBegin
    \/ SampleSaved
    \/ SampleMissingFile
    \/ SampleInferred
    \/ StoreScores
    \/ Report
    \/ ReportZeroDivision

Spec == Init /\ [][Next]_vars

\* the runs of InitCore, and one-sample runs over every stored pixel and every
\* network output
SpecValues == (InitCore \/ InitSavedPixel \/ InitNetOutput) /\ [][Next]_vars

\* the runs of InitCore, and runs for every noise_level string up to MaxArgLen
SpecArgs == (InitCore \/ InitAnyArg) /\ [][Next]_vars

(* ======================= properties of the code ====================== *)
\* the name ends in the three characters 'png'
EndsInPng(name) ==
    /\ Len(name) >= 3
    /\ name[Len(name) - 2] = "p"
    /\ name[Len(name) - 1] = "n"
    /\ name[Len(name)] = "g"

PngCount(d) == Cardinality({name \in d.entries : EndsInPng(name)})

\* the calls logged for the network at position k of network_list
EventsOf(k) == LET Mine(e) == e.n = k IN SelectSeq(log, Mine)

\* a compute_score call has returned and no later call has started
Reported == pc \in {"loop", "done"} /\ returned > 0 /\ returned = Len(calls)

\* C1: a network is evaluated from saved results if and only if load_saved
\* was requested, its output directory exists and the number of entries whose
\* name ends in 'png' equals len(dataset); in every other case no error is
\* raised, the network is loaded and every sample is inferred.
C1_SavedIffCountMatches ==
    pc = "sample" =>
        /\ using_saved_results <=> (load_saved /\ dir.exists /\ PngCount(dir) = L)
        /\ \A i \in 1..Len(EventsOf(n)) :
                EventsOf(n)[i].op = "imread" <=> using_saved_results
        /\ ~(load_saved /\ dir.exists /\ PngCount(dir) = L) =>
                /\ error = "none"
                /\ net = n
                /\ Len(EventsOf(n)) = idx + 1
                /\ EventsOf(n)[1].op = "load_net"

\* C1 witness: load_saved is set and the directory exists, but it holds one
\* png entry for a dataset of two; both samples have been inferred.
C1_Witness ==
    /\ pc = "sample"
    /\ load_saved
    /\ dir.exists
    /\ PngCount(dir) = 1
    /\ L = 2
    /\ idx = 2
    /\ ~using_saved_results
    /\ error = "none"

\* what has been done for the network at position k: nothing (FALSE), or its
\* path and the number of samples processed
Progress(k) ==
    IF k <= Len(stored) THEN [begun |-> TRUE, saved |-> stored[k].saved, done |-> L]
    ELSE IF k = n /\ pc = "sample"
         THEN [begun |-> TRUE, saved |-> using_saved_results, done |-> idx]
         ELSE [begun |-> FALSE, saved |-> FALSE, done |-> 0]

Handed == pc = "sample" /\ idx > 0

\* the fixed-point code k of a float that equals k / 2**14
IsLevel(v) == v.kind = "fin" /\ v.num % (Den \div Q) = 0

LevelOf(v) == v.num \div (Den \div Q)

\* C3, as stated: every prediction handed to the metrics, loaded or inferred,
\* equals k/16384 for an integer k with 0 <= k <= 16384.
C3_AsStated == Handed => IsLevel(net_pred) /\ LevelOf(net_pred) \in 0..Q

\* C3, amended: every prediction handed to the metrics equals k/16384 for an
\* integer k; for an inferred prediction 0 <= k <= 16384, for a loaded one k is
\* the stored 16-bit sample itself, 0 <= k <= 65535.
C3_SameStepOnBothPaths ==
    Handed =>
        /\ IsLevel(net_pred)
        /\ ~using_saved_results => LevelOf(net_pred) \in 0..Q
        /\ using_saved_results =>
            /\ LevelOf(net_pred) \in 0..(TwoPow16 - 1)
            /\ LevelOf(net_pred) =
                    Imread(env, dir, network_list[n].unique, CurLevel, idx - 1).pixel

\* C3 witness: a prediction loaded from a saved image whose sample exceeds
\* 16384 has been handed to the metrics.
C3_Witness ==
    /\ Handed
    /\ using_saved_results
    /\ env.img = TwoPow16 - 1
    /\ LevelOf(net_pred) = TwoPow16 - 1

\* the network output that the last inferred prediction was made from
LastOutput == NetForward(env, net, CurLevel, idx - 1)

\* C4: the inference path's clamp, scale, convert to 16-bit integer and divide
\* step, applied to its own output, returns that output unchanged; and the
\* integer it converts always fits a signed 16-bit integer.
C4_QuantizeIdempotent ==
    Handed /\ ~using_saved_results =>
        /\ net_pred = Quantize(LastOutput)
        /\ Quantize(net_pred) = net_pred
        /\ Clamp(LastOutput).kind = "fin" =>
            /\ TruncToInt(Scale(Clamp(LastOutput)).num) \in
                    (0 - TwoPow16 \div 2)..(TwoPow16 \div 2 - 1)
            /\ LevelOf(net_pred) = TruncToInt(Scale(Clamp(LastOutput)).num)

\* C4 witness: a network output strictly between two fixed-point levels of
\* (0,1) has been quantised, to a different value.
C4_Witness ==
    /\ Handed
    /\ ~using_saved_results
    /\ LastOutput.kind = "fin"
    /\ LastOutput.num > Den \div 2
    /\ LastOutput.num < Den
    /\ ~IsLevel(LastOutput)
    /\ net_pred # LastOutput

\* the index in stored of the last descriptor with this display name
LastWithName(name) ==
    CHOOSE j \in 1..Len(stored) :
        /\ network_list[j].display = name
        /\ \A k \in (j + 1)..Len(stored) : network_list[k].display # name

\* a[1] + ... + a[k]
RECURSIVE SumFirst(_, _)
SumFirst(a, k) == IF k = 0 THEN 0 ELSE SumFirst(a, k - 1) + a[k]

\* C5: the report is formatted only after every network and every sample has
\* been scored, and for every network in it and every metric the value passed
\* is (a1 + ... + an) / n over that network's n = len(dataset) per-sample
\* values, unweighted.
C5_ReportIsPlainMean ==
    Reported =>
        /\ Len(stored) = Len(network_list)
        /\ \A name \in DOMAIN report : \A m \in MetricSet :
            LET a == stored[LastWithName(name)].vals[m]
            IN  /\ Len(a) = L
                /\ L > 0
                /\ report[name][m].den = L
                /\ report[name][m].num = SumFirst(a, L)

\* C5 witness: a report over two samples whose psnr values differ.
C5_Witness ==
    /\ Reported
    /\ L = 2
    /\ \E name \in DOMAIN report :
        LET a == stored[LastWithName(name)].vals["psnr"]
        IN  a[1] # a[2] /\ report[name]["psnr"] = [num |-> a[1] + a[2], den |-> 2]

\* C6: with noise_level 'all' the calls of compute_score are, in order, those
\* for levels 1, 2, 4, 8, each with the setting, mode and load_saved of the
\* command line, never two at a time; a run that ends without an error has
\* made exactly these four.
C6_AllRunsFourLevelsInOrder ==
    noise_level = <<"a", "l", "l">> =>
        /\ Len(calls) <= 4
        /\ \A i \in 1..Len(calls) :
            calls[i] = [setting |-> setting, mode |-> mode,
                        noise_level |-> <<1, 2, 4, 8>>[i],
                        load_saved |-> load_saved]
        /\ returned \in {Len(calls) - 1, Len(calls)}
        /\ pc \in {"net", "sample"} <=> returned = Len(calls) - 1 /\ error = "none"
        /\ pc = "done" => Len(calls) = 4 /\ returned = 4 /\ printed = <<1, 2, 4, 8>>

\* C6 witness: a run with 'all' over two networks has ended after four calls.
C6_Witness ==
    /\ noise_level = <<"a", "l", "l">>
    /\ pc = "done"
    /\ Len(calls) = 4
    /\ Len(network_list) = 2
    /\ L = 2

\* the five noise_level strings the help text names
CanonicalArgs == {<<"1">>, <<"2">>, <<"4">>, <<"8">>, <<"a", "l", "l">>}

\* C7, as stated: a noise_level string outside {1, 2, 4, 8, all} ends the run
\* with an assertion failure before any compute_score call, and a string inside
\* that set raises no assertion failure.
C7_AsStated ==
    pc # "main" =>
        /\ noise_level \notin CanonicalArgs =>
                error = "AssertionError" /\ calls = <<>>
        /\ noise_level \in CanonicalArgs => error # "AssertionError"

DecimalDigits == {"0", "1", "2", "3", "4", "5", "6", "7", "8", "9"}

\* s is spaces, an optional sign, one or more digits, spaces; the digits start
\* at position i and end at position j
IntegerShape(s, i, j) ==
    /\ 1 <= i
    /\ i <= j
    /\ j <= Len(s)
    /\ \A k \in i..j : s[k] \in DecimalDigits
    /\ \A k \in (j + 1)..Len(s) : s[k] = " "
    /\ \/ \A k \in 1..(i - 1) : s[k] = " "
       \/ /\ i >= 2
          /\ s[i - 1] \in {"+", "-"}
          /\ \A k \in 1..(i - 2) : s[k] = " "

SpellsInteger(s) == \E i, j \in 1..Len(s) : IntegerShape(s, i, j)

\* s spells one of 1, 2, 4, 8: zeros, then that one digit, and no minus sign
SpellsValidLevel(s) ==
    \E i, j \in 1..Len(s) :
        /\ IntegerShape(s, i, j)
        /\ s[j] \in {"1", "2", "4", "8"}
        /\ \A k \in i..(j - 1) : s[k] = "0"
        /\ i >= 2 => s[i - 1] # "-"

\* C7, amended: for a noise_level string other than 'all', the run ends with
\* a ValueError when the string does not spell an integer, and with an
\* assertion failure when it spells an integer that is none of 1, 2, 4, 8; in
\* both cases compute_score is never called.  'all' and every spelling of 1, 2,
\* 4 or 8 that int() accepts (the bare digit, but also '02' or ' 2') raise
\* neither, and compute_score is called.
C7_ArgumentErrors ==
    pc # "main" =>
        /\ noise_level \in CanonicalArgs => error \notin {"AssertionError", "ValueError"}
        /\ noise_level # <<"a", "l", "l">> =>
            /\ ~SpellsInteger(noise_level) <=> error = "ValueError"
            /\ SpellsInteger(noise_level) /\ ~SpellsValidLevel(noise_level)
                    <=> error = "AssertionError"
        /\ error \in {"AssertionError", "ValueError"} => calls = <<>> /\ pc = "crashed"
        /\ error \notin {"AssertionError", "ValueError"} /\ pc # "loop" => calls # <<>>

\* C7 witness: the string '02', which is not one of the five named strings,
\* has led to a compute_score call for level 2.
C7_Witness ==
    /\ noise_level = <<"0", "2">>
    /\ Len(calls) = 1
    /\ calls[1].noise_level = 2
    /\ error = "none"

\* the prediction the network at position k makes for sample i on path saved
OwnPrediction(k, saved, i) ==
    IF saved
    THEN LoadedPred(Imread(env, FullDir(L), network_list[k].unique, CurLevel, i).pixel)
    ELSE Quantize(NetForward(env, k, CurLevel, i))

\* the list objects referred to by a scores dict
ListsOf(sc) == {sc[m] : m \in DOMAIN sc}

\* C8: when a network's scores are stored each of its three metric lists holds
\* exactly len(dataset) values, one per index in index order, each computed
\* from that network's own prediction; the lists of different networks are
\* different objects, and nothing that happens later in the call (a later
\* network's samples, its store) changes a stored list.
C8_FreshAccumulators ==
    calls # <<>> =>
        /\ \A j \in 1..Len(stored) :
            /\ stored[j].n = j
            /\ DOMAIN stored[j].vals = {"psnr", "ssim", "lpips"}
            /\ \A m \in DOMAIN stored[j].vals :
                /\ Len(stored[j].vals[m]) = L
                /\ \A i \in 1..L :
                    stored[j].vals[m][i] =
                        MetricValue(m, OwnPrediction(j, stored[j].saved, i - 1), i - 1)
                /\ heap # <<>> => heap[stored[j].ids[m]] = stored[j].vals[m]
            /\ \A k \in 1..Len(stored) :
                k # j => ListsOf(stored[j].ids) \cap ListsOf(stored[k].ids) = {}
            /\ pc = "sample" => ListsOf(stored[j].ids) \cap ListsOf(scores) = {}
        /\ pc = "sample" => \A m \in DOMAIN scores : Len(heap[scores[m]]) = idx

\* C8 witness: two networks over two samples have been stored, with different
\* psnr lists, and the first one's list is still what it was.
C8_Witness ==
    /\ pc = "net"
    /\ L = 2
    /\ Len(stored) = 2
    /\ stored[1].vals["psnr"] # stored[2].vals["psnr"]
    /\ heap[stored[1].ids["psnr"]] = stored[1].vals["psnr"]
    /\ network_list[1].display = network_list[2].display

\* the saved image of the sample about to be processed is not there
NextFileMissing ==
    /\ pc = "sample"
    /\ using_saved_results
    /\ idx < L
    /\ ~(dir.exists /\ (BurstName(idx) \o <<".", "p", "n", "g">>) \in dir.entries)

\* C9: on the saved-results path a sample whose '<burst_name>.png' is absent
\* ends the run with an error at that sample: the only step from there is the
\* failure, which loads no network, runs no inference, prints no report for
\* that level and leaves the later levels unevaluated; nothing follows it.
C9_MissingFileIsFatal ==
    /\ [][NextFileMissing =>
            /\ pc' = "crashed"
            /\ error' = "AttributeError"
            /\ UNCHANGED <<levels, calls, returned, log, net, idx, printed, report>>]_vars
    /\ [][pc # "crashed"]_vars
    /\ [](error = "AttributeError" =>
            /\ pc = "crashed"
            /\ using_saved_results
            /\ idx < L
            /\ BurstName(idx) \o <<".", "p", "n", "g">> \notin dir.entries
            /\ \A i \in 1..Len(EventsOf(n)) : EventsOf(n)[i].op = "imread"
            /\ Len(printed) = Len(calls) - 1
            /\ returned = Len(calls) - 1
            /\ noise_level = <<"a", "l", "l">> => Len(levels) = 4 - Len(calls))

\* C9 witness: under 'all', at level 1, a directory with two png entries but
\* not the second sample's has ended the run at the second sample.
C9_Witness ==
    /\ error = "AttributeError"
    /\ noise_level = <<"a", "l", "l">>
    /\ Len(calls) = 1
    /\ levels = <<2, 4, 8>>
    /\ idx = 1
    /\ PngCount(dir) = 2
    /\ printed = <<>>

\* C10: the table passed to the report formatter has one entry per distinct
\* display name, each holding the means of the last descriptor in list order
\* with that name; it has one entry per descriptor exactly when the display
\* names are pairwise distinct.
C10_KeyedByDisplayName ==
    Reported =>
        /\ DOMAIN report = {network_list[i].display : i \in 1..Len(network_list)}
        /\ \A name \in DOMAIN report : \A m \in MetricSet :
            LET a == stored[LastWithName(name)].vals[m]
            IN  report[name][m] = [num |-> SumFirst(a, Len(a)), den |-> Len(a)]
        /\ Cardinality(DOMAIN report) = Len(network_list) <=>
            \A i, j \in 1..Len(network_list) :
                i # j => network_list[i].display # network_list[j].display

\* C10 witness: two descriptors share a display name, their scores differ, and
\* the report has the single entry of the second.
C10_Witness ==
    /\ Reported
    /\ Len(network_list) = 2
    /\ network_list[1].display = network_list[2].display
    /\ stored[1].vals # stored[2].vals
    /\ Cardinality(DOMAIN report) = 1
    /\ \A name \in DOMAIN report :
        report[name]["ssim"].num = SumFirst(stored[2].vals["ssim"], L)

====
